---- MODULE Spec2Model ----
(***************************************************************************)
(* State-machine model of the ondrix escrow program                        *)
(* (src/ondrix-escrow-solana/src/lib.rs).                                  *)
(*                                                                         *)
(* Amounts (lamports, token units, oracle prices) are u64 / u128 values in *)
(* the program and are far larger than TLC's 32-bit integers, so they are  *)
(* carried as natural numbers in base 1000: a sequence of limbs in 0..999, *)
(* least significant limb first, without leading zero limbs (zero is the   *)
(* empty sequence).  N(<<21, 700, 0, 0>>) reads as 21_700_000_000.         *)
(* Timestamps and durations are small and stay TLC integers.               *)
(***************************************************************************)
EXTENDS Integers, Sequences, FiniteSets, TLC

----------------------------------------------------------------------------
(* Natural numbers wider than 32 bits                                      *)

\* a limb holds three decimal digits
Base == 10 * 10 * 10

Zero == <<>>

RECURSIVE Strip(_)
\* drop the most significant limbs that are zero
Strip(s) ==
    IF s = <<>> THEN <<>>
    ELSE IF s[Len(s)] = 0 THEN Strip(SubSeq(s, 1, Len(s) - 1))
    ELSE s

RECURSIVE Rev(_)
Rev(s) == IF s = <<>> THEN <<>> ELSE Rev(Tail(s)) \o <<Head(s)>>

\* N(<<5, 0, 0, 0, 0>>) is the number written 5_000_000_000_000
N(groups) == Strip(Rev(groups))

RECURSIVE AddC(_, _, _)
AddC(a, b, c) ==
    IF a = <<>> /\ b = <<>> THEN (IF c = 0 THEN <<>> ELSE <<c>>)
    ELSE LET x == IF a = <<>> THEN 0 ELSE Head(a)
             y == IF b = <<>> THEN 0 ELSE Head(b)
             s == x + y + c
         IN  <<s % Base>> \o AddC(IF a = <<>> THEN <<>> ELSE Tail(a),
                                  IF b = <<>> THEN <<>> ELSE Tail(b),
                                  s \div Base)

BigAdd(a, b) == AddC(a, b, 0)

RECURSIVE CmpFrom(_, _, _)
\* compares limbs i, i-1, .., 1 of two numbers of equal length: -1, 0 or 1
CmpFrom(a, b, i) ==
    IF i = 0 THEN 0
    ELSE IF a[i] < b[i] THEN -1
    ELSE IF a[i] > b[i] THEN 1
    ELSE CmpFrom(a, b, i - 1)

BigCmp(a, b) ==
    IF Len(a) < Len(b) THEN -1
    ELSE IF Len(a) > Len(b) THEN 1
    ELSE CmpFrom(a, b, Len(a))

BigLT(a, b) == BigCmp(a, b) = -1
BigLE(a, b) == BigCmp(a, b) # 1
BigGT(a, b) == BigCmp(a, b) = 1
BigGE(a, b) == BigCmp(a, b) # -1

RECURSIVE SubB(_, _, _)
SubB(a, b, br) ==
    IF a = <<>> THEN <<>>
    ELSE LET y == IF b = <<>> THEN 0 ELSE Head(b)
             d == Head(a) - y - br
         IN  <<IF d < 0 THEN d + Base ELSE d>>
             \o SubB(Tail(a), IF b = <<>> THEN <<>> ELSE Tail(b),
                     IF d < 0 THEN 1 ELSE 0)

\* a - b for a >= b
BigSub(a, b) == Strip(SubB(a, b, 0))

RECURSIVE MulLimb(_, _, _)
\* a * k + c for one limb k
MulLimb(a, k, c) ==
    IF a = <<>> THEN (IF c = 0 THEN <<>> ELSE <<c>>)
    ELSE LET p == Head(a) * k + c
         IN  <<p % Base>> \o MulLimb(Tail(a), k, p \div Base)

RECURSIVE BigMul(_, _)
BigMul(a, b) ==
    IF a = <<>> \/ b = <<>> THEN <<>>
    ELSE LET rest == BigMul(a, Tail(b))
         IN  BigAdd(MulLimb(a, Head(b), 0),
                    IF rest = <<>> THEN <<>> ELSE <<0>> \o rest)

RECURSIVE DivRem(_, _)
\* long division of a by a small divisor d (0 < d <= 10^6): [q, r]
DivRem(a, d) ==
    IF a = <<>> THEN [q |-> <<>>, r |-> 0]
    ELSE LET hi  == DivRem(Tail(a), d)
             cur == hi.r * Base + Head(a)
         IN  [q |-> <<cur \div d>> \o hi.q, r |-> cur % d]

\* floor(a / d) for a divisor 0 < d <= 10^6
BigDivSmall(a, d) == Strip(DivRem(a, d).q)

RECURSIVE BigDivLimbs(_, _)
\* floor(a / 1000^k): the k least significant limbs are dropped
BigDivLimbs(a, k) ==
    IF k = 0 \/ a = <<>> THEN a ELSE BigDivLimbs(Tail(a), k - 1)

\* 2^64 - 1 and 2^64
U64_MAX == N(<<18, 446, 744, 73, 709, 551, 615>>)
TwoPow64 == N(<<18, 446, 744, 73, 709, 551, 616>>)

RECURSIVE FromInt(_)
\* a TLC integer n >= 0 as a wide natural
FromInt(n) == IF n = 0 THEN <<>> ELSE <<n % Base>> \o FromInt(n \div Base)

RECURSIVE BigDivInt(_, _)
\* floor(a / d) for an integer divisor d = k * 1000^j with 0 < k <= 10^6,
\* which covers every divisor of the program (2, 10, 10^6, 10^9)
BigDivInt(a, d) ==
    IF d % Base = 0 THEN BigDivInt(BigDivLimbs(a, 1), d \div Base)
    ELSE BigDivSmall(a, d)

\* u64 addition: the sum modulo 2^64, and whether it overflowed
U64Add(a, b) ==
    LET s == BigAdd(a, b)
    IN  IF BigGT(s, U64_MAX) THEN [val |-> BigSub(s, TwoPow64), overflow |-> TRUE]
        ELSE [val |-> s, overflow |-> FALSE]

----------------------------------------------------------------------------
(* Program constants                                                       *)

TOKEN_PRICE_USD_CENTSOneDollar == 10 * 10

TOKEN_PRICE_USD_CENTS == 10
CHAINLINK_USD_DECIMALS == 8
TOKEN_DECIMALS == 9
SOL_LAMPORTS == 1000000000
LOCK_DURATION_MIN == 60
LOCK_DURATION_MAX == 365 * 24 * 60 * 60

CHAINLINK_PROGRAM_ID == "chainlink_program"
SOL_USD_FEED == "sol_usd_feed"
SPL_TOKEN_ID == "spl_token"
SYSTEM_PROGRAM_ID == "system_program"

\* account sizes in bytes
GLOBAL_ESCROW_LEN == 1 + 32 + 32 + 32 + 8 + 8 + 8 + 8 + 8 + 1 + 32 + 32 + 8 + 8 + 8 + 8 + 8
INVESTOR_ACCOUNT_LEN == 1 + 32 + 32 + 8 + 8 + 8 + 8 + 1 + 1
TOKEN_ACCOUNT_LEN == 165

\* Rent::minimum_balance with the cluster's default rent parameters
\* (3480 lamports per byte-year, 2 years, 128 bytes of account overhead)
minimum_balance(data_len) == FromInt((128 + data_len) * 3480 * 2)

----------------------------------------------------------------------------
(* Keys and derived addresses                                              *)

Operator == "operator"
Beneficiary == "beneficiary"
Investors == {"alice", "bob"}
Wallets == {Operator, Beneficiary} \cup Investors
Mint == "mint"
\* any key that is none of the above
OtherKey == "other"

find_global_escrow_pda(initializer, token_mint) ==
    <<"global_escrow", initializer, token_mint>>

find_investor_pda(investor, global_escrow) ==
    <<"investor", investor, global_escrow>>

find_token_vault_pda(global_escrow) == <<"token_vault", global_escrow>>

find_sol_vault_pda(investor, global_escrow) ==
    <<"sol_vault", investor, global_escrow>>

\* spl_associated_token_account::get_associated_token_address
get_associated_token_address(wallet, mint) == <<"ata", wallet, mint>>

\* the one sale of the model: the operator's sale of Mint
EscrowKey == find_global_escrow_pda(Operator, Mint)

----------------------------------------------------------------------------
(* Pricing                                                                 *)

Ok(v) == [err |-> "Ok", val |-> v]
Err(e) == [err |-> e, val |-> Zero]

RECURSIVE AsU64(_)
\* `as u64` of a non-negative wide integer: the value modulo 2^64
AsU64(v) == IF BigLE(v, U64_MAX) THEN v ELSE AsU64(BigSub(v, TwoPow64))

checked_mul_divTruncating(a, b, c) ==
    IF c = 0 THEN Err("AmountOverflow")
    ELSE Ok(AsU64(BigDivInt(BigMul(a, b), c)))

checked_mul_divRoundedUp(a, b, c) ==
    IF c = 0 THEN Err("AmountOverflow")
    ELSE LET result == BigDivInt(BigAdd(BigMul(a, b), FromInt(c - 1)), c)
         IN  IF BigGT(result, U64_MAX) THEN Err("AmountOverflow") ELSE Ok(result)

\* a * b / c in u128, then narrowed to u64 (a, b wide naturals < 2^64; c an integer)
checked_mul_div(a, b, c) ==
    IF c = 0 THEN Err("AmountOverflow")
    ELSE LET result == BigDivInt(BigMul(a, b), c)
         IN  IF BigGT(result, U64_MAX) THEN Err("AmountOverflow") ELSE Ok(result)

calculate_tokens_for_sol(sol_amount_lamports, sol_usd_price) ==
    LET sol_value_usd_8decimals ==
            checked_mul_div(sol_amount_lamports, sol_usd_price, SOL_LAMPORTS)
    IN  IF sol_value_usd_8decimals.err # "Ok" THEN sol_value_usd_8decimals
        ELSE LET sol_value_cents ==
                     BigDivInt(sol_value_usd_8decimals.val,
                               10 ^ (CHAINLINK_USD_DECIMALS - 2))
             IN  checked_mul_div(sol_value_cents, FromInt(10 ^ TOKEN_DECIMALS),
                                 TOKEN_PRICE_USD_CENTS)

----------------------------------------------------------------------------
(* Bounds of the model                                                     *)

\* the clock starts here
StartTime == 1000
\* successful deposits the environment makes
MaxDeposits == 2

----------------------------------------------------------------------------
(* State                                                                   *)

VARIABLES
    now,               \* Clock sysvar: unix_timestamp
    escrow,            \* the GlobalEscrow account at EscrowKey
    investor_accounts, \* the InvestorAccount PDA of each investor
    sol_vaults,        \* the SOL vault PDA of each investor
    wallets,           \* lamports of each wallet
    token_vault,       \* the token vault PDA of the sale
    token_accounts,    \* the associated token account of each wallet
    deposits_done,     \* successful deposits so far (bounds the model)
    last               \* the last instruction processed: what was asked, and the result

ledger == <<escrow, investor_accounts, sol_vaults, wallets, token_vault, token_accounts>>

vars == <<now, escrow, investor_accounts, sol_vaults, wallets, token_vault,
          token_accounts, deposits_done, last>>

\* the accounts an instruction reads and writes, as one value
Accounts ==
    [escrow |-> escrow, investor_accounts |-> investor_accounts,
     sol_vaults |-> sol_vaults, wallets |-> wallets,
     token_vault |-> token_vault, token_accounts |-> token_accounts]

NoEscrow ==
    [is_initialized |-> FALSE, initializer_pubkey |-> OtherKey,
     token_mint_pubkey |-> OtherKey, recipient_wallet |-> OtherKey,
     total_tokens_available |-> Zero, tokens_sold |-> Zero,
     total_sol_deposited |-> Zero, total_sol_withdrawn |-> Zero,
     lock_duration |-> 0, oracle_program_id |-> OtherKey,
     price_feed_pubkey |-> OtherKey, min_sol_investment |-> Zero,
     max_sol_investment |-> Zero, price_staleness_threshold |-> 0,
     sale_end_timestamp |-> 0, initialization_timestamp |-> 0]

NoInvestor ==
    [is_initialized |-> FALSE, investor_pubkey |-> OtherKey,
     global_escrow_pubkey |-> <<>>, sol_deposited |-> Zero,
     tokens_received |-> Zero, deposit_timestamp |-> 0,
     sol_usd_price |-> Zero, status |-> "Uninitialized"]

\* what the wallets hold before the sale
InitialLamports ==
    [w \in Wallets |->
        CASE w = Operator    -> N(<<1, 0, 0, 0>>)
          [] w = Beneficiary -> N(<<1, 0, 0, 0>>)
          [] w = "alice"     -> N(<<10, 10, 0, 0, 0>>)
          [] OTHER           -> N(<<2, 0, 0, 0>>)]

InitialTokens == N(<<30, 0, 0, 0, 0, 0>>)

NoLast == [op |-> "None", err |-> "Ok"]

Init ==
    /\ now = StartTime
    /\ escrow = [created |-> FALSE, data |-> NoEscrow]
    /\ investor_accounts = [i \in Investors |-> [created |-> FALSE, data |-> NoInvestor]]
    /\ sol_vaults = [i \in Investors |-> [created |-> FALSE, lamports |-> Zero]]
    /\ wallets = InitialLamports
    /\ token_vault = [created |-> FALSE, amount |-> Zero]
    /\ token_accounts =
           [w \in Wallets |->
               IF w = Operator THEN [created |-> TRUE, amount |-> InitialTokens]
               ELSE [created |-> (w = Beneficiary), amount |-> Zero]]
    /\ deposits_done = 0
    /\ last = NoLast

----------------------------------------------------------------------------
(* The host: cross-program calls, and the all-or-nothing commit            *)

\* what a handler returns: the result, the accounts as it left them, and
\* whether one of its unchecked u64 additions overflowed
Out(e, S, ovf) == [err |-> e, S |-> S, overflowed |-> ovf]

\* system_instruction::create_account paid from a wallet: the payer must hold the lamports
CanPay(S, payer, lamports) == BigGE(S.wallets[payer], lamports)

Debit(S, payer, lamports) ==
    [S EXCEPT !.wallets[payer] = BigSub(@, lamports)]

\* system_instruction::transfer between two wallets
CreditWallet(S, to, lamports) ==
    [S EXCEPT !.wallets[to] = BigAdd(@, lamports)]

\* the runtime keeps an instruction's writes only when it returns Ok
Commit(pre, out) == IF out.err = "Ok" THEN out.S ELSE pre

----------------------------------------------------------------------------
(* InitializeEscrow                                                        *)

\* the record written at the end of a successful InitializeEscrow
NewGlobalEscrow(clock, req) ==
    [is_initialized |-> TRUE,
     initializer_pubkey |-> req.initializer,
     token_mint_pubkey |-> req.token_mint,
     recipient_wallet |-> req.recipient_wallet,
     total_tokens_available |-> req.token_amount,
     tokens_sold |-> Zero,
     total_sol_deposited |-> Zero,
     total_sol_withdrawn |-> Zero,
     lock_duration |-> req.lock_duration,
     oracle_program_id |-> req.oracle_program,
     price_feed_pubkey |-> req.price_feed,
     min_sol_investment |-> req.min_sol_investment,
     max_sol_investment |-> req.max_sol_investment,
     price_staleness_threshold |-> req.price_staleness_threshold,
     sale_end_timestamp |-> req.sale_end_timestamp,
     initialization_timestamp |-> clock]

LockDurationValidAlways(lock_duration) == TRUE

LockDurationValid(lock_duration) ==
    lock_duration >= LOCK_DURATION_MIN /\ lock_duration <= LOCK_DURATION_MAX

\* create the escrow account and the token vault, move the tokens in, then
\* check the lock duration and write the record
InitializeCreate(S, clock, req) ==
    LET escrow_rent == minimum_balance(GLOBAL_ESCROW_LEN)
        vault_rent  == minimum_balance(TOKEN_ACCOUNT_LEN)
    IN  IF S.escrow.created \/ ~CanPay(S, req.initializer, escrow_rent)
        THEN Out("CreateAccountFailed", S, FALSE)
        ELSE
        LET S1 == [Debit(S, req.initializer, escrow_rent) EXCEPT !.escrow.created = TRUE]
        IN  IF ~S1.token_vault.created /\ ~CanPay(S1, req.initializer, vault_rent)
            THEN Out("CreateAccountFailed", S1, FALSE)
            ELSE
            LET S2 == IF S1.token_vault.created THEN S1
                      ELSE [Debit(S1, req.initializer, vault_rent)
                                EXCEPT !.token_vault.created = TRUE]
                source == S2.token_accounts[req.initializer]
            IN  IF ~source.created \/ BigLT(source.amount, req.token_amount)
                THEN Out("TokenTransferFailed", S2, FALSE)
                ELSE
                LET S3 == [S2 EXCEPT
                              !.token_accounts[req.initializer].amount =
                                  BigSub(@, req.token_amount),
                              !.token_vault.amount = BigAdd(@, req.token_amount)]
                IN  IF ~LockDurationValid(req.lock_duration)
                    THEN Out("InvalidInstruction", S3, FALSE)
                    ELSE Out("Ok",
                             [S3 EXCEPT !.escrow.data = NewGlobalEscrow(clock, req)],
                             FALSE)

AlreadyInitializedUnchecked(escrow_account) == FALSE

\* lines 476-481: the account holds a record that is initialized
AlreadyInitialized(escrow_account) ==
    escrow_account.created /\ escrow_account.data.is_initialized

process_initialize_escrow(S, clock, req) ==
    IF ~req.is_signer THEN Out("MissingRequiredSignature", S, FALSE)
    ELSE IF req.token_program # SPL_TOKEN_ID THEN Out("IncorrectProgramId", S, FALSE)
    ELSE IF req.oracle_program # CHAINLINK_PROGRAM_ID THEN Out("InvalidPriceFeed", S, FALSE)
    ELSE IF req.price_feed # SOL_USD_FEED THEN Out("InvalidPriceFeed", S, FALSE)
    ELSE IF req.system_program # SYSTEM_PROGRAM_ID THEN Out("IncorrectProgramId", S, FALSE)
    ELSE IF req.global_escrow_account
                # find_global_escrow_pda(req.initializer, req.token_mint)
         THEN Out("InvalidPDA", S, FALSE)
    ELSE IF req.token_vault_account # find_token_vault_pda(req.global_escrow_account)
         THEN Out("InvalidPDA", S, FALSE)
    ELSE IF AlreadyInitialized(S.escrow)
         THEN Out("AccountAlreadyInitialized", S, FALSE)
    ELSE InitializeCreate(S, clock, req)

----------------------------------------------------------------------------
(* Oracle                                                                  *)

StaleFromThreshold(clock, round, global_escrow) ==
    clock - round.timestamp >= global_escrow.price_staleness_threshold

\* lines 339-343: the answer is older than the sale tolerates
Stale(clock, round, global_escrow) ==
    clock - round.timestamp > global_escrow.price_staleness_threshold

NonPositiveBelowZero(round) == round.negative

\* lines 345-349: round_data.answer <= 0
NonPositive(round) == round.negative \/ round.answer = Zero

\* round: what latest_round_data returns, [ok, negative, answer, timestamp];
\* the answer is an i128, kept as a sign and a magnitude
get_chainlink_price(price_feed, oracle_program, global_escrow, clock, round) ==
    IF oracle_program # global_escrow.oracle_program_id
    THEN [err |-> "InvalidPriceFeed", price |-> Zero]
    ELSE IF price_feed # global_escrow.price_feed_pubkey
    THEN [err |-> "InvalidPriceFeed", price |-> Zero]
    ELSE IF ~round.ok
    THEN [err |-> "InvalidPriceFeed", price |-> Zero]
    ELSE IF Stale(clock, round, global_escrow)
    THEN [err |-> "StalePriceData", price |-> Zero]
    ELSE IF NonPositive(round)
    THEN [err |-> "InvalidPriceFeed", price |-> Zero]
    ELSE [err |-> "Ok", price |-> AsU64(round.answer)]

----------------------------------------------------------------------------
(* DepositSol                                                              *)

BelowMinimumUnchecked(sol_amount, global_escrow) == FALSE

BelowMinimum(sol_amount, global_escrow) ==
    BigLT(sol_amount, global_escrow.min_sol_investment)

TokensRemaining(global_escrow) ==
    BigSub(global_escrow.total_tokens_available, global_escrow.tokens_sold)

NotEnoughTokensUnchecked(tokens_to_receive, global_escrow) == FALSE

NotEnoughTokens(tokens_to_receive, global_escrow) ==
    BigGT(tokens_to_receive, TokensRemaining(global_escrow))

\* the limit check of an investor's first deposit
NewInvestorExceedsMaximum(sol_amount, global_escrow) ==
    BigGT(sol_amount, global_escrow.max_sol_investment)

\* existing_data.sol_deposited + sol_amount, an unchecked u64 addition
TotalInvestmentThisDeposit(existing_data, sol_amount) == U64Add(Zero, sol_amount)

TotalInvestment(existing_data, sol_amount) ==
    U64Add(existing_data.sol_deposited, sol_amount)

ExceedsMaximumOrReaches(total_investment, global_escrow) ==
    BigGE(total_investment, global_escrow.max_sol_investment)

ExceedsMaximum(total_investment, global_escrow) ==
    BigGT(total_investment, global_escrow.max_sol_investment)

NewInvestorAccount(investor, global_escrow_key, sol_amount, tokens_to_receive, clock, sol_usd_price) ==
    [is_initialized |-> TRUE,
     investor_pubkey |-> investor,
     global_escrow_pubkey |-> global_escrow_key,
     sol_deposited |-> sol_amount,
     tokens_received |-> tokens_to_receive,
     deposit_timestamp |-> clock,
     sol_usd_price |-> sol_usd_price,
     status |-> "Deposited"]

UpdatedInvestorAccountRedeposited(existing_data, sol_amount, tokens_to_receive, sol_usd_price) ==
    [existing_data EXCEPT
        !.sol_deposited = U64Add(@, sol_amount).val,
        !.tokens_received = U64Add(@, tokens_to_receive).val,
        !.sol_usd_price = sol_usd_price,
        !.status = "Deposited"]

UpdatedInvestorAccount(existing_data, sol_amount, tokens_to_receive, sol_usd_price) ==
    [existing_data EXCEPT
        !.sol_deposited = U64Add(@, sol_amount).val,
        !.tokens_received = U64Add(@, tokens_to_receive).val,
        !.sol_usd_price = sol_usd_price]

SolToRecipientRoundedUp(sol_amount) == BigDivInt(BigAdd(sol_amount, N(<<1>>)), 2)

SolToRecipient(sol_amount) == BigDivInt(sol_amount, 2)

SolToLockOneShort(sol_amount) == BigDivInt(BigSub(sol_amount, N(<<1>>)), 2)

SolToLock(sol_amount) == BigSub(sol_amount, SolToRecipient(sol_amount))

DepositEscrowUpdateRebuilt(global_escrow, tokens_to_receive, sol_amount) ==
    [NoEscrow EXCEPT
        !.is_initialized = TRUE,
        !.total_tokens_available = global_escrow.total_tokens_available,
        !.tokens_sold = U64Add(global_escrow.tokens_sold, tokens_to_receive).val,
        !.total_sol_deposited = U64Add(global_escrow.total_sol_deposited, sol_amount).val,
        !.total_sol_withdrawn = global_escrow.total_sol_withdrawn]

DepositEscrowUpdateTokensOnly(global_escrow, tokens_to_receive, sol_amount) ==
    [global_escrow EXCEPT !.tokens_sold = U64Add(@, tokens_to_receive).val]

DepositEscrowUpdate(global_escrow, tokens_to_receive, sol_amount) ==
    [global_escrow EXCEPT
        !.tokens_sold = U64Add(@, tokens_to_receive).val,
        !.total_sol_deposited = U64Add(@, sol_amount).val]

CallFailsIgnored(req, call) == FALSE

\* `invoke(...)?`: a cross-program call that fails ends the instruction; the
\* request names the call, if any, that fails for a reason outside these accounts
CallFails(req, call) == req.fault = call

\* the wallet a token account slot belongs to
TokenAccountHolder(token_account_key) == token_account_key[2]

\* lines 927-933: the two records are written after the three transfers
DepositWrite(S, req, investor_data, tokens_to_receive, ovf) ==
    LET global_escrow == S.escrow.data
    IN  Out("Ok",
            [S EXCEPT
                !.escrow.data =
                    DepositEscrowUpdate(global_escrow, tokens_to_receive, req.sol_amount),
                !.investor_accounts[req.investor].data = investor_data],
            \/ ovf
            \/ U64Add(global_escrow.tokens_sold, tokens_to_receive).overflow
            \/ U64Add(global_escrow.total_sol_deposited, req.sol_amount).overflow)

\* lines 864-925: half to the recipient account that was passed, the rest to
\* the SOL vault, the tokens to the investor's token account
DepositTransfers(S, req, investor_data, tokens_to_receive, ovf) ==
    LET sol_to_recipient == SolToRecipient(req.sol_amount)
        sol_to_lock      == SolToLock(req.sol_amount)
    IN  IF CallFails(req, "transfer_to_recipient")
           \/ ~CanPay(S, req.investor, sol_to_recipient)
        THEN Out("TransferFailed", S, ovf)
        ELSE
        LET S1 == CreditWallet(Debit(S, req.investor, sol_to_recipient),
                               req.recipient_wallet, sol_to_recipient)
        IN  IF CallFails(req, "transfer_to_vault")
               \/ ~CanPay(S1, req.investor, sol_to_lock)
            THEN Out("TransferFailed", S1, ovf)
            ELSE
            LET S2 == [Debit(S1, req.investor, sol_to_lock) EXCEPT
                          !.sol_vaults[req.investor].lamports = BigAdd(@, sol_to_lock)]
                holder == TokenAccountHolder(req.investor_token_account)
            IN  IF CallFails(req, "token_transfer")
                   \/ BigLT(S2.token_vault.amount, tokens_to_receive)
                THEN Out("TokenTransferFailed", S2, ovf)
                ELSE DepositWrite(
                         [S2 EXCEPT
                             !.token_vault.amount = BigSub(@, tokens_to_receive),
                             !.token_accounts[holder].amount =
                                 BigAdd(@, tokens_to_receive)],
                         req, investor_data, tokens_to_receive, ovf)

\* lines 835-862: the SOL vault is created on the first deposit
DepositSolVault(S, req, investor_data, tokens_to_receive, ovf) ==
    LET rent_lamports == minimum_balance(0)
    IN  IF S.sol_vaults[req.investor].created
        THEN DepositTransfers(S, req, investor_data, tokens_to_receive, ovf)
        ELSE IF ~CanPay(S, req.investor, rent_lamports)
        THEN Out("CreateSolVaultFailed", S, ovf)
        ELSE DepositTransfers(
                 [Debit(S, req.investor, rent_lamports) EXCEPT
                     !.sol_vaults[req.investor] =
                         [created |-> TRUE, lamports |-> rent_lamports]],
                 req, investor_data, tokens_to_receive, ovf)

\* lines 775-833: the investor record is created or updated (and written later)
DepositInvestor(S, clock, req, sol_usd_price, tokens_to_receive) ==
    LET global_escrow == S.escrow.data
        account == S.investor_accounts[req.investor]
        rent_lamports == minimum_balance(INVESTOR_ACCOUNT_LEN)
    IN  IF ~account.created
        THEN IF NewInvestorExceedsMaximum(req.sol_amount, global_escrow)
             THEN Out("InvestmentExceedsMaximum", S, FALSE)
             ELSE IF ~CanPay(S, req.investor, rent_lamports)
             THEN Out("CreateInvestorAccountFailed", S, FALSE)
             ELSE DepositSolVault(
                      [Debit(S, req.investor, rent_lamports) EXCEPT
                          !.investor_accounts[req.investor].created = TRUE],
                      req,
                      NewInvestorAccount(req.investor, req.global_escrow_account,
                                         req.sol_amount, tokens_to_receive, clock,
                                         sol_usd_price),
                      tokens_to_receive, FALSE)
        ELSE LET existing_data == account.data
                 total_investment == TotalInvestment(existing_data, req.sol_amount)
             IN  IF ExceedsMaximum(total_investment.val, global_escrow)
                 THEN Out("InvestmentExceedsMaximum", S, total_investment.overflow)
                 ELSE DepositSolVault(
                          S, req,
                          UpdatedInvestorAccount(existing_data, req.sol_amount,
                                                 tokens_to_receive, sol_usd_price),
                          tokens_to_receive,
                          \/ total_investment.overflow
                          \/ U64Add(existing_data.sol_deposited, req.sol_amount).overflow
                          \/ U64Add(existing_data.tokens_received,
                                    tokens_to_receive).overflow)

\* lines 736-773: derived addresses, the minimum, the price, the tokens left
DepositPrice(S, clock, req) ==
    LET global_escrow == S.escrow.data
    IN  IF req.investor_account
               # find_investor_pda(req.investor, req.global_escrow_account)
        THEN Out("InvalidPDA", S, FALSE)
        ELSE IF req.sol_vault_account
                    # find_sol_vault_pda(req.investor, req.global_escrow_account)
        THEN Out("InvalidPDA", S, FALSE)
        ELSE IF BelowMinimum(req.sol_amount, global_escrow)
        THEN Out("InvestmentBelowMinimum", S, FALSE)
        ELSE
        LET price == get_chainlink_price(req.price_feed, req.oracle_program,
                                         global_escrow, clock, req.round)
        IN  IF price.err # "Ok" THEN Out(price.err, S, FALSE)
            ELSE
            LET tokens_to_receive == calculate_tokens_for_sol(req.sol_amount, price.price)
            IN  IF tokens_to_receive.err # "Ok" THEN Out(tokens_to_receive.err, S, FALSE)
                ELSE IF NotEnoughTokens(tokens_to_receive.val, global_escrow)
                THEN Out("NotEnoughTokens", S, FALSE)
                ELSE DepositInvestor(S, clock, req, price.price, tokens_to_receive.val)

\* lines 673-734: the investor's token account is created if missing, then validated
DepositTokenAccount(S, clock, req) ==
    LET holder == TokenAccountHolder(req.investor_token_account)
        rent_lamports == minimum_balance(TOKEN_ACCOUNT_LEN)
    IN  IF ~S.token_accounts[holder].created
        THEN IF req.investor_token_account
                    # get_associated_token_address(req.investor, Mint)
             THEN Out("InvalidAccountData", S, FALSE)
             ELSE IF CallFails(req, "create_token_account")
                     \/ ~CanPay(S, req.investor, rent_lamports)
             THEN Out("CreateTokenAccountFailed", S, FALSE)
             ELSE DepositPrice(
                      [Debit(S, req.investor, rent_lamports) EXCEPT
                          !.token_accounts[holder].created = TRUE],
                      clock, req)
        ELSE IF holder # req.investor
        THEN Out("InvalidTokenAccount", S, FALSE)
        ELSE DepositPrice(S, clock, req)

process_deposit_sol(S, clock, req) ==
    IF ~req.is_signer THEN Out("MissingRequiredSignature", S, FALSE)
    ELSE IF ~S.escrow.created THEN Out("BorshIoError", S, FALSE)
    ELSE IF ~S.escrow.data.is_initialized THEN Out("InvalidEscrowStatus", S, FALSE)
    ELSE IF req.token_program # SPL_TOKEN_ID THEN Out("IncorrectProgramId", S, FALSE)
    ELSE IF req.oracle_program # S.escrow.data.oracle_program_id
         THEN Out("InvalidPriceFeed", S, FALSE)
    ELSE IF req.price_feed # S.escrow.data.price_feed_pubkey
         THEN Out("InvalidPriceFeed", S, FALSE)
    ELSE IF req.system_program # SYSTEM_PROGRAM_ID THEN Out("IncorrectProgramId", S, FALSE)
    ELSE DepositTokenAccount(S, clock, req)

----------------------------------------------------------------------------
(* WithdrawLockedSol                                                       *)

\* the investor a position or vault address was derived for
DerivedFor(pda) == pda[2]

AlreadyWithdrawnIgnored(investor_data) == FALSE

AlreadyWithdrawn(investor_data) == investor_data.status = "SolWithdrawn"

IsRecipientAnyKey(key, global_escrow) == TRUE

IsRecipient(key, global_escrow) == key = global_escrow.recipient_wallet

GlobalUnlockTime(global_escrow) ==
    global_escrow.initialization_timestamp + global_escrow.lock_duration

\* InvestorAccount::is_unlock_time: the per-investor timer (not called by the program)
is_unlock_time(investor_data, lock_duration, clock) ==
    clock >= investor_data.deposit_timestamp + lock_duration

StillLockedSinceDeposit(clock, global_escrow, investor_data) ==
    ~is_unlock_time(investor_data, global_escrow.lock_duration, clock)

StillLocked(clock, global_escrow, investor_data) ==
    clock < GlobalUnlockTime(global_escrow)

get_locked_sol_amountRoundedUp(investor_data) ==
    BigDivInt(BigAdd(investor_data.sol_deposited, N(<<1>>)), 2)

get_locked_sol_amount(investor_data) == BigDivInt(investor_data.sol_deposited, 2)

WithdrawEscrowUpdateSkipped(global_escrow, sol_to_withdraw) == global_escrow

\* lines 1042-1044: the total withdrawn grows by the amount moved
WithdrawEscrowUpdate(global_escrow, sol_to_withdraw) ==
    [global_escrow EXCEPT !.total_sol_withdrawn = U64Add(@, sol_to_withdraw).val]

\* lines 1033-1049: the recipient account must be the recorded one; lamports
\* move from the vault to it, the total and the status are written
WithdrawMove(S, req, investor, sol_to_withdraw) ==
    LET global_escrow == S.escrow.data
        total == U64Add(global_escrow.total_sol_withdrawn, sol_to_withdraw)
    IN  IF ~IsRecipient(req.recipient_wallet, global_escrow)
        THEN Out("Unauthorized", S, FALSE)
        ELSE Out("Ok",
                 [CreditWallet(S, req.recipient_wallet, sol_to_withdraw) EXCEPT
                     !.sol_vaults[DerivedFor(req.sol_vault_account)].lamports =
                         BigSub(@, sol_to_withdraw),
                     !.escrow.data = WithdrawEscrowUpdate(global_escrow, sol_to_withdraw),
                     !.investor_accounts[investor].data.status = "SolWithdrawn"],
                 total.overflow)

\* lines 1007-1031: the global lock, the vault balance and its rent floor
WithdrawAmount(S, clock, req, investor) ==
    LET global_escrow == S.escrow.data
        investor_data == S.investor_accounts[investor].data
        sol_to_withdraw == get_locked_sol_amount(investor_data)
        vault_balance == S.sol_vaults[DerivedFor(req.sol_vault_account)].lamports
        min_rent_balance == minimum_balance(0)
    IN  IF StillLocked(clock, global_escrow, investor_data)
        THEN Out("SolStillLocked", S, FALSE)
        ELSE IF BigLT(vault_balance, sol_to_withdraw)
        THEN Out("NoSolToWithdraw", S, FALSE)
        ELSE IF BigLT(BigSub(vault_balance, sol_to_withdraw), min_rent_balance)
        THEN Out("NotRentExempt", S, FALSE)
        ELSE WithdrawMove(S, req, investor, sol_to_withdraw)

SolVaultMismatchIgnored(sol_vault_account, investor_data) == FALSE

\* lines 997-1005: the vault passed is not the one derived from the position
SolVaultMismatch(sol_vault_account, investor_data) ==
    sol_vault_account # find_sol_vault_pda(investor_data.investor_pubkey,
                                           investor_data.global_escrow_pubkey)

process_withdraw_locked_sol(S, clock, req) ==
    LET investor == DerivedFor(req.investor_account)
        investor_data == S.investor_accounts[investor].data
    IN  IF ~req.is_signer THEN Out("MissingRequiredSignature", S, FALSE)
        ELSE IF ~S.investor_accounts[investor].created THEN Out("InvalidPDA", S, FALSE)
        ELSE IF ~S.escrow.created THEN Out("BorshIoError", S, FALSE)
        ELSE IF AlreadyWithdrawn(investor_data) THEN Out("NoSolToWithdraw", S, FALSE)
        ELSE IF ~IsRecipient(req.withdrawer, S.escrow.data)
        THEN Out("Unauthorized", S, FALSE)
        ELSE IF req.investor_account
                    # find_investor_pda(investor_data.investor_pubkey,
                                        investor_data.global_escrow_pubkey)
        THEN Out("InvalidPDA", S, FALSE)
        ELSE IF investor_data.global_escrow_pubkey # req.global_escrow_account
        THEN Out("InvalidPDA", S, FALSE)
        ELSE IF SolVaultMismatch(req.sol_vault_account, investor_data)
        THEN Out("InvalidPDA", S, FALSE)
        ELSE WithdrawAmount(S, clock, req, investor)

----------------------------------------------------------------------------
(* GetEscrowStatus and CloseSale                                           *)

process_get_escrow_status(S) ==
    IF ~S.escrow.created THEN Out("BorshIoError", S, FALSE) ELSE Out("Ok", S, FALSE)

UnsoldTokens(global_escrow) ==
    BigSub(global_escrow.total_tokens_available, global_escrow.tokens_sold)

SaleNotEnded(clock, global_escrow) == clock < global_escrow.sale_end_timestamp

\* lines 1127-1157: the unsold tokens go from the vault to the token account passed
CloseSaleTransfer(S, req, unsold_tokens) ==
    LET holder == TokenAccountHolder(req.recipient_token_account)
    IN  IF req.token_vault_account # find_token_vault_pda(req.global_escrow_account)
        THEN Out("InvalidPDA", S, FALSE)
        ELSE IF ~S.token_accounts[holder].created
                \/ BigLT(S.token_vault.amount, unsold_tokens)
        THEN Out("TokenTransferFailed", S, FALSE)
        ELSE Out("Ok",
                 [S EXCEPT !.token_vault.amount = BigSub(@, unsold_tokens),
                           !.token_accounts[holder].amount = BigAdd(@, unsold_tokens)],
                 FALSE)

process_close_sale(S, clock, req) ==
    IF ~req.is_signer THEN Out("MissingRequiredSignature", S, FALSE)
    ELSE IF req.token_program # SPL_TOKEN_ID THEN Out("IncorrectProgramId", S, FALSE)
    ELSE IF ~S.escrow.created THEN Out("BorshIoError", S, FALSE)
    ELSE IF ~S.escrow.data.is_initialized THEN Out("InvalidEscrowStatus", S, FALSE)
    ELSE IF ~IsRecipient(req.caller, S.escrow.data) THEN Out("Unauthorized", S, FALSE)
    ELSE IF SaleNotEnded(clock, S.escrow.data) THEN Out("InvalidEscrowStatus", S, FALSE)
    ELSE IF UnsoldTokens(S.escrow.data) = Zero THEN Out("NotEnoughTokens", S, FALSE)
    ELSE CloseSaleTransfer(S, req, UnsoldTokens(S.escrow.data))

----------------------------------------------------------------------------
(* What callers send                                                       *)

\* the sale the operator sets up: tokens for 10_000.000000001 SOL at $217, or
\* for 1.000000001 SOL only
SaleTokens == N(<<21, 702, 170, 0, 0, 0>>)
SmallSale == N(<<2, 170, 0, 0, 0>>)
MinInvestment == N(<<1, 0, 0>>)
MaxInvestment == N(<<10, 0, 0, 0, 0>>)
\* seconds an oracle answer stays acceptable, and seconds the sale lasts
StalenessThreshold == 300
SaleLength == 59

InitializeBase(clock) ==
    [initializer |-> Operator, is_signer |-> TRUE,
     global_escrow_account |-> EscrowKey,
     token_mint |-> Mint,
     token_vault_account |-> find_token_vault_pda(EscrowKey),
     recipient_wallet |-> Beneficiary,
     token_program |-> SPL_TOKEN_ID, system_program |-> SYSTEM_PROGRAM_ID,
     oracle_program |-> CHAINLINK_PROGRAM_ID, price_feed |-> SOL_USD_FEED,
     token_amount |-> SaleTokens,
     lock_duration |-> LOCK_DURATION_MIN,
     sale_end_timestamp |-> clock + SaleLength,
     min_sol_investment |-> MinInvestment,
     max_sol_investment |-> MaxInvestment,
     price_staleness_threshold |-> StalenessThreshold]

InitializeRequests(clock) ==
    LET base == InitializeBase(clock)
    IN  {base,
         [base EXCEPT !.is_signer = FALSE],
         [base EXCEPT !.oracle_program = OtherKey],
         [base EXCEPT !.price_feed = OtherKey],
         [base EXCEPT !.global_escrow_account = find_global_escrow_pda(OtherKey, Mint)],
         [base EXCEPT !.token_vault_account = find_token_vault_pda(<<OtherKey>>)],
         [base EXCEPT !.token_amount = SmallSale],
         [base EXCEPT !.token_amount = BigAdd(InitialTokens, N(<<1>>))],
         [base EXCEPT !.lock_duration = LOCK_DURATION_MIN - 1],
         [base EXCEPT !.lock_duration = LOCK_DURATION_MAX + 1]}

\* payments: below the minimum, an odd amount, half the maximum
Amounts == {N(<<999, 999>>), N(<<1, 0, 0, 1>>), N(<<5, 0, 0, 0, 0>>)}

\* SOL/USD answers with 8 decimals: $217.00 and $9.99999999
Price == N(<<21, 700, 0, 0>>)
LowPrice == N(<<999, 999, 999>>)

Round(answer, timestamp) ==
    [ok |-> TRUE, negative |-> FALSE, answer |-> answer, timestamp |-> timestamp]

DepositBase(clock, investor) ==
    [investor |-> investor, is_signer |-> TRUE,
     global_escrow_account |-> EscrowKey,
     investor_account |-> find_investor_pda(investor, EscrowKey),
     sol_vault_account |-> find_sol_vault_pda(investor, EscrowKey),
     investor_token_account |-> get_associated_token_address(investor, Mint),
     recipient_wallet |-> Beneficiary,
     token_program |-> SPL_TOKEN_ID, system_program |-> SYSTEM_PROGRAM_ID,
     oracle_program |-> CHAINLINK_PROGRAM_ID, price_feed |-> SOL_USD_FEED,
     sol_amount |-> N(<<1, 0, 0, 1>>),
     round |-> Round(Price, clock),
     fault |-> "none"]

\* a cross-program call of a deposit that fails for a reason outside these
\* accounts (a frozen token account, an account passed read-only, ...)
Faults == {"create_token_account", "transfer_to_recipient", "transfer_to_vault",
           "token_transfer"}

\* Both investors send every amount at the usual price and every malformed
\* request; alice also pays the minimum at the low price, and bob also names
\* his own wallet as the recipient of the unlocked half.
DepositRequests(clock, investor) ==
    LET base == DepositBase(clock, investor)
        other == CHOOSE j \in Investors : j # investor
    IN  {[base EXCEPT !.sol_amount = a] : a \in Amounts}
        \cup (IF investor = "alice"
              THEN {[base EXCEPT !.sol_amount = MinInvestment,
                                 !.round = Round(LowPrice, clock)]}
              ELSE {[base EXCEPT !.recipient_wallet = investor]})
        \cup {[base EXCEPT !.fault = f] : f \in Faults}
        \cup {[base EXCEPT !.round = rd] :
                 rd \in {Round(Price, clock - StalenessThreshold),
                         Round(Price, clock - StalenessThreshold - 1),
                         Round(Zero, clock),
                         [Round(Price, clock) EXCEPT !.negative = TRUE],
                         [Round(Price, clock) EXCEPT !.ok = FALSE]}}
        \cup {[base EXCEPT !.is_signer = FALSE],
              [base EXCEPT !.oracle_program = OtherKey],
              [base EXCEPT !.price_feed = OtherKey],
              [base EXCEPT !.investor_account = find_investor_pda(other, EscrowKey)],
              [base EXCEPT !.sol_vault_account = find_sol_vault_pda(other, EscrowKey)]}

WithdrawRequests(investor) ==
    LET base == [withdrawer |-> Beneficiary, is_signer |-> TRUE,
                 global_escrow_account |-> EscrowKey,
                 investor_account |-> find_investor_pda(investor, EscrowKey),
                 sol_vault_account |-> find_sol_vault_pda(investor, EscrowKey),
                 recipient_wallet |-> Beneficiary]
        other == CHOOSE j \in Investors : j # investor
    IN  {base,
         [base EXCEPT !.is_signer = FALSE],
         [base EXCEPT !.withdrawer = investor],
         [base EXCEPT !.withdrawer = investor, !.recipient_wallet = investor],
         [base EXCEPT !.recipient_wallet = investor],
         [base EXCEPT !.sol_vault_account = find_sol_vault_pda(other, EscrowKey)]}

CloseSaleRequests ==
    LET base == [caller |-> Beneficiary, is_signer |-> TRUE,
                 global_escrow_account |-> EscrowKey,
                 token_vault_account |-> find_token_vault_pda(EscrowKey),
                 recipient_token_account |->
                     get_associated_token_address(Beneficiary, Mint),
                 token_program |-> SPL_TOKEN_ID]
    IN  {base,
         [base EXCEPT !.is_signer = FALSE],
         [base EXCEPT !.caller = Operator],
         [base EXCEPT !.token_vault_account = find_token_vault_pda(<<OtherKey>>)]}

----------------------------------------------------------------------------
(* Actions: one processed instruction each                                 *)

\* An instruction ends as its handler returned; where one of its unchecked
\* additions overflowed it may instead have panicked, depending on whether
\* the program was built with overflow checks.  Either way the runtime keeps
\* its writes only on Ok.
Process(op, req, out) ==
    \E panicked \in (IF out.overflowed THEN BOOLEAN ELSE {FALSE}) :
        LET res  == IF panicked THEN Out("ArithmeticOverflow", Accounts, TRUE) ELSE out
            post == Commit(Accounts, res)
        IN  /\ escrow' = post.escrow
            /\ investor_accounts' = post.investor_accounts
            /\ sol_vaults' = post.sol_vaults
            /\ wallets' = post.wallets
            /\ token_vault' = post.token_vault
            /\ token_accounts' = post.token_accounts
            /\ last' = [op |-> op, err |-> res.err, req |-> req]
            /\ deposits_done' =
                   IF op = "DepositSol" /\ res.err = "Ok"
                   THEN deposits_done + 1 ELSE deposits_done
            /\ deposits_done' <= MaxDeposits
            /\ UNCHANGED now

InitializeEscrow ==
    /\ last = NoLast
    /\ \E req \in InitializeRequests(now) :
        Process("InitializeEscrow", req, process_initialize_escrow(Accounts, now, req))

DepositSol ==
    /\ last = NoLast
    /\ \E investor \in Investors :
        \E req \in DepositRequests(now, investor) :
            Process("DepositSol", req, process_deposit_sol(Accounts, now, req))

WithdrawLockedSol ==
    /\ last = NoLast
    /\ \E investor \in Investors :
        \E req \in WithdrawRequests(investor) :
            Process("WithdrawLockedSol", req,
                    process_withdraw_locked_sol(Accounts, now, req))

GetEscrowStatus ==
    /\ last = NoLast
    /\ Process("GetEscrowStatus", [global_escrow_account |-> EscrowKey],
               process_get_escrow_status(Accounts))

CloseSale ==
    /\ last = NoLast
    /\ \E req \in CloseSaleRequests :
        Process("CloseSale", req, process_close_sale(Accounts, now, req))

\* the result goes back to the caller; the next instruction can be processed
Return ==
    /\ last # NoLast
    /\ last' = NoLast
    /\ UNCHANGED <<now, ledger, deposits_done>>

\* the instants at which the clock is observed after StartTime: the last
\* second of the shortest lock, and the second it ends
Instants == {StartTime + LOCK_DURATION_MIN - 1, StartTime + LOCK_DURATION_MIN}

\* the clock advances to a later instant; time is counted from StartTime,
\* when the sale is set up
Tick ==
    /\ last = NoLast
    /\ escrow.created
    /\ \E t \in Instants :
           /\ t > now
           /\ now' = t
    /\ UNCHANGED <<ledger, deposits_done, last>>

Next ==
    \/ InitializeEscrow
    \/ DepositSol
    \/ WithdrawLockedSol
    \/ GetEscrowStatus
    \/ CloseSale
    \/ Return
    \/ Tick

Spec == Init /\ [][Next]_vars

----------------------------------------------------------------------------
(* Properties                                                              *)

\* the step in which an instruction of the given kind is processed; its
\* request and result are in last'
DepositStep == last = NoLast /\ last'.op = "DepositSol"
WithdrawStep == last = NoLast /\ last'.op = "WithdrawLockedSol"

\* the results a deposit can end with before it compares the tokens it
\* computed with the tokens left, in the order of the code
BeforeTokenCheck ==
    {"MissingRequiredSignature", "BorshIoError", "InvalidEscrowStatus",
     "IncorrectProgramId", "InvalidPriceFeed", "InvalidAccountData",
     "CreateTokenAccountFailed", "InvalidTokenAccount", "InvalidPDA",
     "InvestmentBelowMinimum", "StalePriceData", "AmountOverflow"}

\* ... and before it compares the investor's total with the maximum
BeforeMaximumCheck == BeforeTokenCheck \cup {"NotEnoughTokens"}

\* the tokens bought by the deposit a request asks for, at the answer the
\* oracle gives it
TokensFor(req) == calculate_tokens_for_sol(req.sol_amount, req.round.answer).val

\* the oracle gives the request a price the sale accepts
PriceAccepted(req, clock) ==
    get_chainlink_price(req.price_feed, req.oracle_program, escrow.data,
                        clock, req.round).err = "Ok"

\* C1: On every successful Deposit the unlocked half, floor(amount / 2), is
\* credited to the beneficiary recorded in the sale configuration, whatever
\* accounts the caller supplied; no other account receives that share.
C1_HalfGoesToRecordedBeneficiary ==
    [][(DepositStep /\ last'.err = "Ok") =>
          LET req == last'.req
              recorded == escrow.data.recipient_wallet
          IN  /\ req.recipient_wallet = recorded
              /\ wallets'[recorded]
                     = BigAdd(wallets[recorded], SolToRecipient(req.sol_amount))]_vars

\* C2: tokens_sold never exceeds total_tokens_available.  A deposit whose
\* computed token amount exceeds the tokens left fails, with NotEnoughTokens
\* once it has passed the checks before that comparison, and commits nothing.
\* Only a successful deposit changes tokens_sold.
C2_TokensSoldWithinOffer ==
    /\ [](escrow.data.is_initialized =>
             BigLE(escrow.data.tokens_sold, escrow.data.total_tokens_available))
    /\ [][(/\ DepositStep
           /\ escrow.data.is_initialized
           /\ PriceAccepted(last'.req, now)
           /\ BigGT(TokensFor(last'.req), TokensRemaining(escrow.data)))
          => /\ last'.err \in BeforeTokenCheck \cup {"NotEnoughTokens"}
             /\ ledger' = ledger]_vars
    /\ [][(escrow.data.is_initialized
           /\ escrow'.data.tokens_sold # escrow.data.tokens_sold)
          => (DepositStep /\ last'.err = "Ok")]_vars

\* a deposit was refused with NotEnoughTokens while tokens were still left,
\* after two deposits were accepted
C2_Witness ==
    /\ last.op = "DepositSol"
    /\ last.err = "NotEnoughTokens"
    /\ deposits_done = 2
    /\ BigGT(TokensRemaining(escrow.data), Zero)
    /\ BigGT(TokensFor(last.req), TokensRemaining(escrow.data))

\* C3: A successful Deposit(amount) at price p adds tokens_for_payment(amount, p)
\* to tokens_sold and to the caller's tokens_received, and adds amount to
\* total_sol_deposited and to the caller's sol_deposited.
C3_DepositAccounting ==
    [][(DepositStep /\ last'.err = "Ok") =>
          LET req == last'.req
              tokens == TokensFor(req)
              before == investor_accounts[req.investor].data
              after == investor_accounts'[req.investor].data
          IN  /\ escrow'.data.tokens_sold = BigAdd(escrow.data.tokens_sold, tokens)
              /\ escrow'.data.total_sol_deposited
                     = BigAdd(escrow.data.total_sol_deposited, req.sol_amount)
              /\ after.sol_deposited = BigAdd(before.sol_deposited, req.sol_amount)
              /\ after.tokens_received = BigAdd(before.tokens_received, tokens)]_vars

\* a deposit was accepted into a position that already held an earlier one
C3_Witness ==
    /\ last.op = "DepositSol"
    /\ last.err = "Ok"
    /\ BigGT(investor_accounts[last.req.investor].data.sol_deposited,
             last.req.sol_amount)
    /\ BigGT(TokensFor(last.req), Zero)
    /\ escrow.data.tokens_sold # TokensFor(last.req)

\* C4: Every committed position has sol_deposited <= max_sol_investment.  A
\* deposit that would take the investor's cumulative total above the maximum
\* fails, with InvestmentExceedsMaximum once it has passed the checks before
\* that comparison, and changes nothing.
C4_PositionWithinMaximum ==
    /\ [](\A i \in Investors :
             investor_accounts[i].created =>
                 BigLE(investor_accounts[i].data.sol_deposited,
                       escrow.data.max_sol_investment))
    /\ [][(/\ DepositStep
           /\ escrow.data.is_initialized
           /\ BigGT(BigAdd(investor_accounts[last'.req.investor].data.sol_deposited,
                           last'.req.sol_amount),
                    escrow.data.max_sol_investment))
          => /\ last'.err \in BeforeMaximumCheck \cup {"InvestmentExceedsMaximum"}
             /\ ledger' = ledger]_vars

\* a deposit that is within the maximum by itself was refused with
\* InvestmentExceedsMaximum because of what the position already held
C4_Witness ==
    /\ last.op = "DepositSol"
    /\ last.err = "InvestmentExceedsMaximum"
    /\ BigLE(last.req.sol_amount, escrow.data.max_sol_investment)
    /\ BigLT(investor_accounts[last.req.investor].data.sol_deposited,
             escrow.data.max_sol_investment)
    /\ BigGT(investor_accounts[last.req.investor].data.sol_deposited, Zero)

\* the deposit of the example: 5_000_000_000_000 lamports
HalfMaximum == N(<<5, 0, 0, 0, 0>>)

\* a deposit request that no check before the maximum stops and whose
\* account creations and transfers can all be paid
DepositGoesThrough(req) ==
    /\ escrow.data.is_initialized
    /\ req \in {[DepositBase(now, req.investor) EXCEPT !.sol_amount = a] :
                   a \in Amounts}
    /\ ~BelowMinimum(req.sol_amount, escrow.data)
    /\ ~BigGT(TokensFor(req), TokensRemaining(escrow.data))
    /\ BigGE(token_vault.amount, TokensFor(req))
    /\ BigGE(wallets[req.investor], BigAdd(req.sol_amount, N(<<1, 0, 0, 0>>)))

\* C5 as stated: with max_sol_investment = 10_000_000_000_000, an investor's
\* first deposit of 5_000_000_000_000 succeeds and the same investor's second
\* deposit of 5_000_000_000_000 fails with InvestmentExceedsMaximum.
C5_SecondHalfMaximumRefused ==
    [][(/\ DepositStep
        /\ escrow.data.max_sol_investment = MaxInvestment
        /\ last'.req.sol_amount = HalfMaximum
        /\ DepositGoesThrough(last'.req))
       => LET held == investor_accounts[last'.req.investor].data.sol_deposited
          IN  /\ held = Zero => last'.err = "Ok"
              /\ held = HalfMaximum => last'.err = "InvestmentExceedsMaximum"]_vars

\* C5, amended: with max_sol_investment = 10_000_000_000_000 both deposits
\* of 5_000_000_000_000 succeed, the second leaving the position at exactly
\* the maximum; any further deposit by that investor that reaches the
\* comparison fails with InvestmentExceedsMaximum.
C5_TwoHalvesReachMaximum ==
    [][(/\ DepositStep
        /\ escrow.data.max_sol_investment = MaxInvestment)
       => LET req == last'.req
              held == investor_accounts[req.investor].data.sol_deposited
              after == investor_accounts'[req.investor].data.sol_deposited
          IN  /\ (/\ req.sol_amount = HalfMaximum
                  /\ DepositGoesThrough(req)
                  /\ held \in {Zero, HalfMaximum})
                 => /\ last'.err = "Ok"
                    /\ after = BigAdd(held, HalfMaximum)
              /\ (held = MaxInvestment /\ escrow.data.is_initialized)
                 => last'.err \in BeforeMaximumCheck
                                    \cup {"InvestmentExceedsMaximum"}]_vars

\* after two accepted deposits of 5_000_000_000_000 the position is at the
\* maximum and a further deposit was refused with InvestmentExceedsMaximum
C5_Witness ==
    /\ last.op = "DepositSol"
    /\ last.err = "InvestmentExceedsMaximum"
    /\ escrow.data.max_sol_investment = MaxInvestment
    /\ investor_accounts[last.req.investor].data.sol_deposited = MaxInvestment
    /\ investor_accounts[last.req.investor].data.tokens_received
           = BigAdd(TokensFor([last.req EXCEPT !.sol_amount = HalfMaximum]),
                    TokensFor([last.req EXCEPT !.sol_amount = HalfMaximum]))

\* the position a withdrawal request names
PositionOf(req) == investor_accounts[DerivedFor(req.investor_account)]

\* the withdrawal the beneficiary is meant to send for an investor's position
WithdrawValid(req) ==
    LET investor == DerivedFor(req.investor_account)
    IN  /\ req.is_signer
        /\ req.withdrawer = escrow.data.recipient_wallet
        /\ req.recipient_wallet = escrow.data.recipient_wallet
        /\ req.global_escrow_account = EscrowKey
        /\ req.investor_account = find_investor_pda(investor, EscrowKey)
        /\ req.sol_vault_account = find_sol_vault_pda(investor, EscrowKey)

\* C6: WithdrawLocked succeeds at most once for a position, whatever happens
\* in between, further deposits by the investor included: a position that was
\* withdrawn stays withdrawn, and every later WithdrawLocked for it fails,
\* with NoSolToWithdraw when the caller signed, and moves nothing.
C6_WithdrawAtMostOnce ==
    /\ [][\A i \in Investors :
             investor_accounts[i].data.status = "SolWithdrawn"
                 => investor_accounts'[i].data.status = "SolWithdrawn"]_vars
    /\ [][(WithdrawStep /\ last'.err = "Ok")
          => /\ PositionOf(last'.req).data.status = "Deposited"
             /\ investor_accounts'[DerivedFor(last'.req.investor_account)].data.status
                    = "SolWithdrawn"]_vars
    /\ [][(WithdrawStep /\ PositionOf(last'.req).data.status = "SolWithdrawn")
          => /\ last'.err # "Ok"
             /\ last'.req.is_signer => last'.err = "NoSolToWithdraw"
             /\ ledger' = ledger]_vars

\* the beneficiary's second withdrawal for a position was refused with
\* NoSolToWithdraw although the investor had deposited again after the first
C6_Witness ==
    /\ last.op = "WithdrawLockedSol"
    /\ last.err = "NoSolToWithdraw"
    /\ WithdrawValid(last.req)
    /\ PositionOf(last.req).data.status = "SolWithdrawn"
    /\ BigGT(sol_vaults[DerivedFor(last.req.investor_account)].lamports,
             BigAdd(minimum_balance(0), N(<<1, 0>>)))

C9_BelowMinimumRejected ==
    [][(/\ DepositStep
        /\ escrow.data.is_initialized
        /\ BigLT(last'.req.sol_amount, escrow.data.min_sol_investment))
       => /\ last'.err # "Ok"
          /\ ledger' = ledger]_vars

\* a first deposit below the minimum was refused with InvestmentBelowMinimum,
\* and the token account it had created for the investor does not exist
C9_Witness ==
    /\ last.op = "DepositSol"
    /\ last.err = "InvestmentBelowMinimum"
    /\ BigLT(last.req.sol_amount, escrow.data.min_sol_investment)
    /\ ~token_accounts[last.req.investor].created
    /\ wallets[last.req.investor] = InitialLamports[last.req.investor]

\* C10: If one of the three transfers of a Deposit fails, or the oracle
\* read fails, the Deposit fails and no account has changed: the totals and
\* the position keep their values, and no lamports or tokens have moved.
C10_FailedTransferLeavesNothing ==
    [][(/\ DepositStep
        /\ \/ last'.req.fault \in {"transfer_to_recipient", "transfer_to_vault",
                                   "token_transfer"}
           \/ ~last'.req.round.ok
           \/ last'.err \in {"TransferFailed", "TokenTransferFailed",
                             "InvalidPriceFeed", "StalePriceData"})
       => /\ last'.err # "Ok"
          /\ ledger' = ledger]_vars

\* the token transfer, the last of the three, failed in an investor's first
\* deposit: the SOL vault that deposit had created and paid into does not exist
C10_Witness ==
    /\ last.op = "DepositSol"
    /\ last.err = "TokenTransferFailed"
    /\ last.req.fault = "token_transfer"
    /\ ~sol_vaults[last.req.investor].created
    /\ ~investor_accounts[last.req.investor].created
    /\ escrow.data.total_sol_deposited = Zero

\* InvestorStatus in the order of its variants
StatusRank(status) ==
    CASE status = "Uninitialized" -> 0
      [] status = "Deposited"     -> 1
      [] status = "SolWithdrawn"  -> 2

\* C11: A position's status only moves forward along Uninitialized ->
\* Deposited -> SolWithdrawn: no instruction takes it from SolWithdrawn back
\* to Deposited, or from Deposited or SolWithdrawn back to Uninitialized.
C11_StatusMovesForward ==
    [][\A i \in Investors :
          StatusRank(investor_accounts'[i].data.status)
              >= StatusRank(investor_accounts[i].data.status)]_vars

\* a deposit was accepted into a position whose locked half had already
\* been withdrawn, and the position is still SolWithdrawn
C11_Witness ==
    /\ last.op = "DepositSol"
    /\ last.err = "Ok"
    /\ investor_accounts[last.req.investor].data.status = "SolWithdrawn"
    /\ escrow.data.total_sol_withdrawn # Zero

\* C12: After every successful Deposit, into a new position or an existing
\* one (one already withdrawn included), the position's status is Deposited
\* and its recorded price is the price read during that Deposit.
C12_DepositLeavesDeposited ==
    [][(DepositStep /\ last'.err = "Ok")
       => LET after == investor_accounts'[last'.req.investor].data
          IN  /\ after.status = "Deposited"
              /\ after.sol_usd_price = last'.req.round.answer]_vars

\* C13: No locked funds are stranded: in every state at or after the global
\* unlock time in which a SOL vault holds more than its rent-exempt minimum,
\* the beneficiary can still withdraw from it, so its position has not been
\* withdrawn already (a withdrawn position refuses every later withdrawal).
C13_LockedFundsWithdrawable ==
    \A i \in Investors :
        (/\ escrow.data.is_initialized
         /\ now >= GlobalUnlockTime(escrow.data)
         /\ sol_vaults[i].created
         /\ BigGT(sol_vaults[i].lamports, minimum_balance(0)))
        => investor_accounts[i].data.status = "Deposited"

CloseSaleStep == last = NoLast /\ last'.op = "CloseSale"

\* the CloseSale the beneficiary is meant to send
CloseSaleValid(req) ==
    /\ req.is_signer
    /\ req.caller = escrow.data.recipient_wallet
    /\ req.global_escrow_account = EscrowKey
    /\ req.token_vault_account = find_token_vault_pda(EscrowKey)
    /\ req.recipient_token_account
           = get_associated_token_address(escrow.data.recipient_wallet, Mint)
    /\ req.token_program = SPL_TOKEN_ID

\* C14: CloseSale called by the beneficiary on an initialized sale: before
\* sale_end_timestamp it fails and moves no tokens; at or after it, with no
\* unsold tokens it fails with NotEnoughTokens, and with N > 0 unsold tokens
\* it moves exactly N tokens from the token vault to the beneficiary.
C14_CloseSaleReclaimsUnsold ==
    [][(/\ CloseSaleStep
        /\ escrow.data.is_initialized
        /\ last'.req.caller = escrow.data.recipient_wallet)
       => LET req == last'.req
              unsold == BigSub(escrow.data.total_tokens_available,
                               escrow.data.tokens_sold)
              beneficiary == escrow.data.recipient_wallet
          IN  /\ now < escrow.data.sale_end_timestamp
                 => (last'.err # "Ok" /\ ledger' = ledger)
              /\ (/\ CloseSaleValid(req)
                  /\ now >= escrow.data.sale_end_timestamp
                  /\ unsold = Zero)
                 => last'.err = "NotEnoughTokens"
              /\ (/\ CloseSaleValid(req)
                  /\ now >= escrow.data.sale_end_timestamp
                  /\ unsold # Zero)
                 => /\ last'.err = "Ok"
                    /\ token_vault.amount = BigAdd(token_vault'.amount, unsold)
                    /\ token_accounts'[beneficiary].amount
                           = BigAdd(token_accounts[beneficiary].amount, unsold)]_vars

\* a CloseSale has succeeded: only CloseSale pays tokens to the beneficiary
SaleClosed == BigGT(token_accounts[escrow.data.recipient_wallet].amount, Zero)

\* C15: Once a CloseSale has succeeded, every later CloseSale on the sale
\* fails with NotEnoughTokens and transfers nothing.
C15_SecondCloseNothingToReclaim ==
    [][(CloseSaleStep /\ escrow.data.is_initialized /\ SaleClosed)
       => /\ last'.err # "Ok"
          /\ ledger' = ledger
          /\ CloseSaleValid(last'.req) => last'.err = "NotEnoughTokens"]_vars

\* the fields of GlobalEscrow that are fixed when the sale is set up
ConfigOf(global_escrow) ==
    [initializer_pubkey |-> global_escrow.initializer_pubkey,
     token_mint_pubkey |-> global_escrow.token_mint_pubkey,
     recipient_wallet |-> global_escrow.recipient_wallet,
     lock_duration |-> global_escrow.lock_duration,
     oracle_program_id |-> global_escrow.oracle_program_id,
     price_feed_pubkey |-> global_escrow.price_feed_pubkey,
     min_sol_investment |-> global_escrow.min_sol_investment,
     max_sol_investment |-> global_escrow.max_sol_investment,
     price_staleness_threshold |-> global_escrow.price_staleness_threshold,
     sale_end_timestamp |-> global_escrow.sale_end_timestamp,
     initialization_timestamp |-> global_escrow.initialization_timestamp]

\* C16: The oracle program and price feed stored at InitializeEscrow, and
\* likewise the initializer, mint, recipient, lock duration, initialization
\* and sale-end timestamps, investment limits and staleness threshold, are
\* never changed by a later instruction.
C16_ConfigImmutable ==
    [][escrow.data.is_initialized
       => /\ escrow'.data.is_initialized
          /\ ConfigOf(escrow'.data) = ConfigOf(escrow.data)]_vars

\* the sale was closed after a deposit and a withdrawal had been processed,
\* and its configuration is still the one it was set up with
C16_Witness ==
    /\ last.op = "CloseSale"
    /\ last.err = "Ok"
    /\ escrow.data.total_sol_withdrawn # Zero
    /\ ConfigOf(escrow.data)
           = ConfigOf(NewGlobalEscrow(StartTime, InitializeBase(StartTime)))

\* the results a deposit can end with before it compares the oracle and
\* price feed accounts with the recorded ones, and before it reads the price
BeforeOracleKeys ==
    {"MissingRequiredSignature", "BorshIoError", "InvalidEscrowStatus",
     "IncorrectProgramId"}
BeforePriceRead ==
    BeforeOracleKeys \cup {"InvalidAccountData", "CreateTokenAccountFailed",
                           "InvalidTokenAccount", "InvalidPDA",
                           "InvestmentBelowMinimum"}

\* a deposit request that no check before the price read stops
ReachesPriceRead(req) ==
    /\ escrow.data.is_initialized
    /\ req = [DepositBase(now, req.investor) EXCEPT !.round = req.round]
    /\ BigGE(wallets[req.investor], N(<<1, 0, 0, 0>>))

\* C17: A Deposit whose oracle program or price feed account differs from
\* the recorded ones, whose oracle read fails, or whose reported price is
\* <= 0 fails, with InvalidPriceFeed once it has passed the checks before
\* that one, and changes no account.
C17_BadOracleRejected ==
    [][(DepositStep /\ escrow.data.is_initialized)
       => LET req == last'.req
              mismatch == \/ req.oracle_program # escrow.data.oracle_program_id
                          \/ req.price_feed # escrow.data.price_feed_pubkey
              unread == ~req.round.ok
              nonpositive == req.round.negative \/ req.round.answer = Zero
          IN  /\ (mismatch \/ unread \/ nonpositive)
                 => (last'.err # "Ok" /\ ledger' = ledger)
              /\ mismatch => last'.err \in BeforeOracleKeys \cup {"InvalidPriceFeed"}
              /\ unread => last'.err \in BeforePriceRead \cup {"InvalidPriceFeed"}
              /\ nonpositive
                 => last'.err \in BeforePriceRead
                                    \cup {"StalePriceData", "InvalidPriceFeed"}
              /\ (/\ ReachesPriceRead(req)
                  /\ unread \/ nonpositive
                  /\ now - req.round.timestamp
                         <= escrow.data.price_staleness_threshold)
                 => last'.err = "InvalidPriceFeed"]_vars

\* a deposit priced at a fresh answer of zero was refused with InvalidPriceFeed
C17_Witness ==
    /\ last.op = "DepositSol"
    /\ last.err = "InvalidPriceFeed"
    /\ last.req.round.ok
    /\ last.req.round.answer = Zero
    /\ last.req.round.timestamp = now
    /\ last.req.oracle_program = escrow.data.oracle_program_id
    /\ last.req.price_feed = escrow.data.price_feed_pubkey

\* C18: The oracle read, and so the Deposit, fails with StalePriceData
\* exactly when now - timestamp > price_staleness_threshold: an answer whose
\* age equals the threshold is accepted, one that is a second older is
\* rejected, and a rejected deposit changes no account.
C18_StaleExactlyBeyondThreshold ==
    [][(DepositStep /\ escrow.data.is_initialized)
       => LET req == last'.req
              age == now - req.round.timestamp
              bound == escrow.data.price_staleness_threshold
          IN  /\ last'.err = "StalePriceData" => (age > bound /\ ledger' = ledger)
              /\ (ReachesPriceRead(req) /\ req.round.ok)
                 => (last'.err = "StalePriceData" <=> age > bound)]_vars

\* a deposit priced at an answer exactly as old as the threshold was accepted
C18_Witness ==
    /\ last.op = "DepositSol"
    /\ last.err = "Ok"
    /\ now - last.req.round.timestamp = escrow.data.price_staleness_threshold

\* C19: In every state of a sale the locked funds withdrawn so far are at
\* most half of what was deposited: total_sol_withdrawn <=
\* floor(total_sol_deposited / 2).
C19_WithdrawnAtMostHalf ==
    BigLE(escrow.data.total_sol_withdrawn,
          BigDivInt(escrow.data.total_sol_deposited, 2))

\* both investors' positions, each holding an odd amount, have been
\* withdrawn, and the total withdrawn is one lamport short of half the deposits
C19_Witness ==
    /\ \A i \in Investors : investor_accounts[i].data.status = "SolWithdrawn"
    /\ BigAdd(escrow.data.total_sol_withdrawn, N(<<1>>))
           = BigDivInt(escrow.data.total_sol_deposited, 2)

\* C20: A successful WithdrawLocked moves exactly floor(sol_deposited / 2)
\* from the position's SOL vault to the beneficiary, sets the position to
\* SolWithdrawn and adds that amount to total_sol_withdrawn; tokens_sold,
\* total_sol_deposited and the position's sol_deposited are unchanged.
C20_WithdrawMovesHalf ==
    [][(WithdrawStep /\ last'.err = "Ok")
       => LET i == DerivedFor(last'.req.investor_account)
              half == BigDivInt(investor_accounts[i].data.sol_deposited, 2)
              beneficiary == escrow.data.recipient_wallet
          IN  /\ sol_vaults[i].lamports = BigAdd(sol_vaults'[i].lamports, half)
              /\ wallets'[beneficiary] = BigAdd(wallets[beneficiary], half)
              /\ investor_accounts'[i].data.status = "SolWithdrawn"
              /\ escrow'.data.total_sol_withdrawn
                     = BigAdd(escrow.data.total_sol_withdrawn, half)
              /\ escrow'.data.tokens_sold = escrow.data.tokens_sold
              /\ escrow'.data.total_sol_deposited = escrow.data.total_sol_deposited
              /\ investor_accounts'[i].data.sol_deposited
                     = investor_accounts[i].data.sol_deposited
              /\ \A j \in Investors \ {i} :
                     /\ sol_vaults'[j] = sol_vaults[j]
                     /\ investor_accounts'[j] = investor_accounts[j]]_vars

\* a withdrawal succeeded for a position holding an odd amount, after an
\* earlier withdrawal for the other investor
C20_Witness ==
    /\ last.op = "WithdrawLockedSol"
    /\ last.err = "Ok"
    /\ LET i == DerivedFor(last.req.investor_account)
       IN  /\ investor_accounts[i].data.sol_deposited = N(<<1, 0, 0, 1>>)
           /\ BigGT(escrow.data.total_sol_withdrawn,
                    BigDivInt(investor_accounts[i].data.sol_deposited, 2))

\* the rent a deposit pays for the accounts it creates for its investor
DepositRent(req) ==
    BigAdd(IF token_accounts[req.investor].created THEN Zero
           ELSE minimum_balance(TOKEN_ACCOUNT_LEN),
           BigAdd(IF investor_accounts[req.investor].created THEN Zero
                  ELSE minimum_balance(INVESTOR_ACCOUNT_LEN),
                  IF sol_vaults[req.investor].created THEN Zero
                  ELSE minimum_balance(0)))

\* C21: Every successful Deposit(amount) splits the payment exactly:
\* floor(amount / 2) leaves the investor for the unlocked share and
\* amount - floor(amount / 2) goes into the investor's SOL vault, so the parts
\* add up to the amount and the odd lamport goes to the vault.
C21_ExactSplit ==
    [][(DepositStep /\ last'.err = "Ok")
       => LET req == last'.req
              i == req.investor
              half == BigDivInt(req.sol_amount, 2)
              rest == BigSub(req.sol_amount, half)
              vault_before == IF sol_vaults[i].created THEN sol_vaults[i].lamports
                              ELSE minimum_balance(0)
              paid == BigAdd(req.sol_amount, DepositRent(req))
          IN  /\ sol_vaults'[i].lamports = BigAdd(vault_before, rest)
              /\ BigAdd(half, rest) = req.sol_amount
              /\ BigGE(rest, half) /\ BigLE(rest, BigAdd(half, N(<<1>>)))
              /\ IF req.recipient_wallet = i
                 THEN BigAdd(wallets'[i], paid) = BigAdd(wallets[i], half)
                 ELSE /\ BigAdd(wallets'[i], paid) = wallets[i]
                      /\ wallets'[req.recipient_wallet]
                             = BigAdd(wallets[req.recipient_wallet], half)]_vars

\* an odd amount was deposited into a vault that existed already: the vault
\* got the larger part
C21_Witness ==
    /\ last.op = "DepositSol"
    /\ last.err = "Ok"
    /\ last.req.sol_amount = N(<<1, 0, 0, 1>>)
    /\ sol_vaults[last.req.investor].lamports
           = BigAdd(minimum_balance(0), N(<<1, 0, 0, 2>>))

InitializeStep == last = NoLast /\ last'.op = "InitializeEscrow"

\* an InitializeEscrow request that passes every check made before the
\* record is looked at
InitializeWellFormed(req) ==
    /\ req.is_signer
    /\ req.token_program = SPL_TOKEN_ID
    /\ req.oracle_program = CHAINLINK_PROGRAM_ID
    /\ req.price_feed = SOL_USD_FEED
    /\ req.system_program = SYSTEM_PROGRAM_ID
    /\ req.global_escrow_account = find_global_escrow_pda(req.initializer, req.token_mint)
    /\ req.token_vault_account = find_token_vault_pda(req.global_escrow_account)

\* C22: A sale record is created exactly once: only a successful
\* InitializeEscrow makes a record initialized, and an InitializeEscrow on an
\* initialized record never succeeds and changes nothing; with a signer,
\* the allow-listed oracle accounts and matching derived addresses it fails
\* with AccountAlreadyInitialized.
C22_InitializedOnce ==
    /\ [][(~escrow.data.is_initialized /\ escrow'.data.is_initialized)
          => (InitializeStep /\ last'.err = "Ok")]_vars
    /\ [][(InitializeStep /\ escrow.data.is_initialized)
          => /\ last'.err # "Ok"
             /\ ledger' = ledger
             /\ InitializeWellFormed(last'.req)
                => last'.err = "AccountAlreadyInitialized"]_vars

\* a second InitializeEscrow, asking for another amount of tokens, was
\* refused with AccountAlreadyInitialized after tokens had been sold
C22_Witness ==
    /\ last.op = "InitializeEscrow"
    /\ last.err = "AccountAlreadyInitialized"
    /\ escrow.data.tokens_sold # Zero
    /\ last.req.token_amount # escrow.data.total_tokens_available

\* C23: Every initialized sale has 60 <= lock_duration <= 31536000.  An
\* InitializeEscrow with a lock duration outside that range fails and changes
\* no account: no record is left and the operator's tokens are not in the
\* vault, although the range is checked after the accounts were created and
\* the tokens moved.
C23_LockDurationInRange ==
    /\ [](escrow.data.is_initialized
             => /\ escrow.data.lock_duration >= LOCK_DURATION_MIN
                /\ escrow.data.lock_duration <= LOCK_DURATION_MAX)
    /\ [][(/\ InitializeStep
           /\ \/ last'.req.lock_duration < LOCK_DURATION_MIN
              \/ last'.req.lock_duration > LOCK_DURATION_MAX)
          => /\ last'.err # "Ok"
             /\ ledger' = ledger]_vars

\* an InitializeEscrow with a lock of a year and a second was refused after
\* it had created the accounts and moved the tokens: there is no record, no
\* vault, and the operator holds all the tokens
C23_Witness ==
    /\ last.op = "InitializeEscrow"
    /\ last.err = "InvalidInstruction"
    /\ last.req.lock_duration = LOCK_DURATION_MAX + 1
    /\ ~escrow.created
    /\ ~token_vault.created
    /\ token_accounts[Operator].amount = InitialTokens
    /\ wallets[Operator] = InitialLamports[Operator]

----------------------------------------------------------------------------
(* calculate_tokens_for_sol by itself                                      *)

\* lamport amounts from nothing to u64::MAX: around the smallest amount
\* worth a cent at $217, around the minimum investment, around one SOL,
\* and amounts whose tokens approach or exceed u64
PricingAmounts ==
    {Zero, N(<<1>>), N(<<46, 82>>), N(<<46, 83>>), N(<<999, 999>>), MinInvestment,
     N(<<1, 0, 0, 0>>), N(<<1, 0, 0, 1>>), N(<<5, 0, 0, 0, 0>>),
     N(<<8, 0, 0, 0, 0, 0>>), U64_MAX}

\* SOL/USD answers with 8 decimals: the smallest, just below $10, $10,
\* $217, $217.00000001 and $1000
PricingPrices ==
    {N(<<1>>), LowPrice, N(<<1, 0, 0, 0>>), Price, N(<<21, 700, 0, 1>>),
     N(<<100, 0, 0, 0>>)}

NoCall == [sol_amount_lamports |-> Zero, sol_usd_price |-> Zero,
           result |-> Err("None")]

\* one call and what it returned
Call(sol_amount_lamports, sol_usd_price) ==
    [sol_amount_lamports |-> sol_amount_lamports,
     sol_usd_price |-> sol_usd_price,
     result |-> calculate_tokens_for_sol(sol_amount_lamports, sol_usd_price)]

\* no sale is involved; `last` holds the latest call and the one before it
PricingInit ==
    /\ now = StartTime
    /\ escrow = [created |-> FALSE, data |-> NoEscrow]
    /\ investor_accounts = [i \in Investors |-> [created |-> FALSE, data |-> NoInvestor]]
    /\ sol_vaults = [i \in Investors |-> [created |-> FALSE, lamports |-> Zero]]
    /\ wallets = InitialLamports
    /\ token_vault = [created |-> FALSE, amount |-> Zero]
    /\ token_accounts = [w \in Wallets |-> [created |-> FALSE, amount |-> Zero]]
    /\ deposits_done = 0
    /\ last = [previous |-> NoCall, latest |-> NoCall]

Calculate ==
    /\ \E sol_amount_lamports \in PricingAmounts :
           \E sol_usd_price \in PricingPrices :
               last' = [previous |-> last.latest,
                        latest |-> Call(sol_amount_lamports, sol_usd_price)]
    /\ UNCHANGED <<now, ledger, deposits_done>>

PricingNext == Calculate

PricingSpec == PricingInit /\ [][PricingNext]_vars

\* the example of the documentation: one SOL at $217.00
OneSolAt217 ==
    /\ last.latest.sol_amount_lamports = N(<<1, 0, 0, 0>>)
    /\ last.latest.sol_usd_price = N(<<21, 700, 0, 0>>)

BothSucceed ==
    /\ last.previous.result.err = "Ok"
    /\ last.latest.result.err = "Ok"

\* C25: calculate_tokens_for_sol is monotonic: of two successful calls at
\* the same price the one with the larger amount returns at least as many
\* tokens, and of two successful calls with the same amount the one at the
\* higher price returns at least as many tokens.
C25_Monotonic ==
    BothSucceed =>
        /\ (/\ last.previous.sol_usd_price = last.latest.sol_usd_price
            /\ BigLE(last.previous.sol_amount_lamports, last.latest.sol_amount_lamports))
               => BigLE(last.previous.result.val, last.latest.result.val)
        /\ (/\ last.previous.sol_amount_lamports = last.latest.sol_amount_lamports
            /\ BigLE(last.previous.sol_usd_price, last.latest.sol_usd_price))
               => BigLE(last.previous.result.val, last.latest.result.val)

\* the same large amount at $217 and then at $217.00000001: both calls
\* succeed and the second returns more
C25_Witness ==
    /\ BothSucceed
    /\ last.previous.sol_amount_lamports = N(<<8, 0, 0, 0, 0, 0>>)
    /\ last.latest.sol_amount_lamports = N(<<8, 0, 0, 0, 0, 0>>)
    /\ last.previous.sol_usd_price = Price
    /\ last.latest.sol_usd_price = N(<<21, 700, 0, 1>>)
    /\ BigLT(last.previous.result.val, last.latest.result.val)

\* C26: calculate_tokens_for_sol never overcounts: a successful result is
\* at most the exact value amount * price * 10^9 / (10^9 * 10^6 * 10), that
\* is, result * 10^7 <= amount * price.
C26_NeverOvercounts ==
    last.latest.result.err = "Ok" =>
        BigLE(BigMul(last.latest.result.val, N(<<10, 0, 0>>)),
              BigMul(last.latest.sol_amount_lamports, last.latest.sol_usd_price))

\* the minimum investment just below $10: worth 9.99999999 tokens' tenth
\* of a cent, and the call returns nothing for it
C26_Witness ==
    /\ last.latest.sol_amount_lamports = MinInvestment
    /\ last.latest.sol_usd_price = LowPrice
    /\ last.latest.result = Ok(Zero)

\* C27: once a CloseSale has succeeded the sale is closed and no later
\* DepositSol on that sale succeeds.
C27_NoDepositAfterClose ==
    [][(DepositStep /\ escrow.data.is_initialized /\ SaleClosed)
       => last'.err # "Ok"]_vars

\* C28: in every state of an initialized sale the token vault holds exactly
\* total_tokens_available - tokens_sold as recorded in GlobalEscrow.
C28_VaultMatchesLedger ==
    escrow.data.is_initialized
        => token_vault.amount = UnsoldTokens(escrow.data)

\* C29: while a position's status is Deposited its SOL vault holds at least
\* the rent-exempt minimum plus floor(sol_deposited / 2), however deposits
\* and withdrawals interleave; no SOL vault ever holds less than the
\* rent-exempt minimum; and a WithdrawLockedSol for a position whose status
\* is Deposited never fails with NoSolToWithdraw or NotRentExempt.
C29_VaultCoversLockedHalf ==
    /\ [](\A i \in Investors :
             /\ investor_accounts[i].data.status = "Deposited"
                    => BigGE(sol_vaults[i].lamports,
                             BigAdd(minimum_balance(0),
                                    get_locked_sol_amount(investor_accounts[i].data)))
             /\ sol_vaults[i].created
                    => BigGE(sol_vaults[i].lamports, minimum_balance(0)))
    /\ [][(WithdrawStep /\ PositionOf(last'.req).data.status = "Deposited")
          => last'.err \notin {"NoSolToWithdraw", "NotRentExempt"}]_vars

\* alice deposited 5_000_000_000_000 and then 1_000_000_001; the withdrawal
\* of floor(5_001_000_000_001 / 2) succeeded and left her vault one lamport
\* above the rent-exempt minimum
C29_Witness ==
    /\ last.op = "WithdrawLockedSol" /\ last.err = "Ok"
    /\ investor_accounts["alice"].data.sol_deposited = N(<<5, 1, 0, 0, 1>>)
    /\ sol_vaults["alice"].lamports = BigAdd(minimum_balance(0), N(<<1>>))

\* C30: every successful DepositSol with sol_amount > 0 issues a strictly
\* positive number of tokens: no deposit is accepted, split and locked while
\* calculate_tokens_for_sol truncates to 0.
C30_DepositIssuesTokens ==
    [][(DepositStep /\ last'.err = "Ok" /\ BigGT(last'.req.sol_amount, Zero))
       => /\ BigGT(TokensFor(last'.req), Zero)
          /\ BigGT(token_accounts'[last'.req.investor].amount,
                   token_accounts[last'.req.investor].amount)]_vars

----------------------------------------------------------------------------
(* Deposits near the top of the u64 range                                  *)

\* 2^63
HalfRange == BigDivInt(TwoPow64, 2)

\* alice holds most of the lamports there are; all wallets together hold
\* less than 2^64, as the lamports of a cluster do
WideLamports ==
    [InitialLamports EXCEPT !["alice"] = N(<<12, 0, 0, 0, 0, 0, 0>>)]

\* alice sets up a sale that pays her: the per-investor limit is 2^63 or
\* the largest u64
WideInitializeRequests(clock) ==
    LET base == [InitializeBase(clock) EXCEPT !.recipient_wallet = "alice"]
    IN  {[base EXCEPT !.max_sol_investment = m] : m \in {HalfRange, U64_MAX}}

\* the smallest positive oracle answer: 0.00000001 USD per SOL
DustPrice == N(<<1>>)

\* deposits of the minimum, of 2^63 - 1 and of 2^63 lamports, the unlocked
\* half going to the sale's recipient
WideDepositRequests(clock, investor) ==
    LET base == [DepositBase(clock, investor) EXCEPT
                    !.recipient_wallet = "alice",
                    !.round = Round(DustPrice, clock)]
    IN  {[base EXCEPT !.sol_amount = a] :
            a \in {MinInvestment, BigSub(HalfRange, N(<<1>>)), HalfRange}}

WideInit ==
    /\ now = StartTime
    /\ escrow = [created |-> FALSE, data |-> NoEscrow]
    /\ investor_accounts = [i \in Investors |-> [created |-> FALSE, data |-> NoInvestor]]
    /\ sol_vaults = [i \in Investors |-> [created |-> FALSE, lamports |-> Zero]]
    /\ wallets = WideLamports
    /\ token_vault = [created |-> FALSE, amount |-> Zero]
    /\ token_accounts =
           [w \in Wallets |->
               IF w = Operator THEN [created |-> TRUE, amount |-> InitialTokens]
               ELSE [created |-> (w = Beneficiary), amount |-> Zero]]
    /\ deposits_done = 0
    /\ last = NoLast

WideInitializeEscrow ==
    /\ last = NoLast
    /\ \E req \in WideInitializeRequests(now) :
        Process("InitializeEscrow", req, process_initialize_escrow(Accounts, now, req))

WideDepositSol ==
    /\ last = NoLast
    /\ \E investor \in Investors :
        \E req \in WideDepositRequests(now, investor) :
            Process("DepositSol", req, process_deposit_sol(Accounts, now, req))

WideNext ==
    \/ WideInitializeEscrow
    \/ WideDepositSol
    \/ WithdrawLockedSol
    \/ Return
    \/ Tick

WideSpec == WideInit /\ [][WideNext]_vars

\* C31: the limit check of a deposit is made on the true sum of the
\* position's sol_deposited and sol_amount: no accepted deposit brings the
\* true total above max_sol_investment, and sol_deposited, tokens_received,
\* tokens_sold and total_sol_deposited grow by exactly what was deposited
\* and issued, without wrapping modulo 2^64.
C31_LimitOnTrueSum ==
    [][(DepositStep /\ last'.err = "Ok")
       => LET investor == last'.req.investor
              before == investor_accounts[investor].data
              after == investor_accounts'[investor].data
              tokens == TokensFor(last'.req)
          IN  /\ BigLE(BigAdd(before.sol_deposited, last'.req.sol_amount),
                       escrow.data.max_sol_investment)
              /\ after.sol_deposited
                     = BigAdd(before.sol_deposited, last'.req.sol_amount)
              /\ after.tokens_received = BigAdd(before.tokens_received, tokens)
              /\ escrow'.data.tokens_sold = BigAdd(escrow.data.tokens_sold, tokens)
              /\ escrow'.data.total_sol_deposited
                     = BigAdd(escrow.data.total_sol_deposited,
                              last'.req.sol_amount)]_vars

\* C32: locked funds are held per investor: a DepositSol by an investor and
\* a WithdrawLockedSol for an investor's position leave every other
\* investor's position and SOL vault unchanged, and a successful
\* WithdrawLockedSol draws from the vault derived from the same investor and
\* sale as the position it marks SolWithdrawn, and from no other.
C32_PerInvestorCustody ==
    /\ [][DepositStep
          => \A j \in Investors \ {last'.req.investor} :
                 /\ investor_accounts'[j] = investor_accounts[j]
                 /\ sol_vaults'[j] = sol_vaults[j]]_vars
    /\ [][WithdrawStep
          => \A j \in Investors \ {DerivedFor(last'.req.investor_account)} :
                 /\ investor_accounts'[j] = investor_accounts[j]
                 /\ sol_vaults'[j] = sol_vaults[j]]_vars
    /\ [][(WithdrawStep /\ last'.err = "Ok")
          => LET i == DerivedFor(last'.req.investor_account)
                 position == investor_accounts[i].data
             IN  /\ last'.req.investor_account
                        = find_investor_pda(position.investor_pubkey,
                                            position.global_escrow_pubkey)
                 /\ last'.req.sol_vault_account
                        = find_sol_vault_pda(position.investor_pubkey,
                                             position.global_escrow_pubkey)
                 /\ position.investor_pubkey = i
                 /\ position.global_escrow_pubkey = last'.req.global_escrow_account
                 /\ investor_accounts'[i].data.status = "SolWithdrawn"
                 /\ sol_vaults[i].lamports
                        = BigAdd(sol_vaults'[i].lamports,
                                 get_locked_sol_amount(position))]_vars

\* alice's position was withdrawn while bob's is still Deposited and his
\* vault still holds his locked half
C32_Witness ==
    /\ last.op = "WithdrawLockedSol" /\ last.err = "Ok"
    /\ DerivedFor(last.req.investor_account) = "alice"
    /\ investor_accounts["alice"].data.status = "SolWithdrawn"
    /\ investor_accounts["bob"].data.status = "Deposited"
    /\ sol_vaults["bob"].lamports
           = BigAdd(minimum_balance(0),
                    SolToLock(investor_accounts["bob"].data.sol_deposited))
====
